---- MODULE Spec2Model ----
(***************************************************************************)
(* Model of batch_importer_db.py: a sequential daemon that, in an endless  *)
(* loop, reads the (exchange, symbol) pairs of a database, imports the     *)
(* candles of every pair with retries, and sleeps until the next cycle.    *)
(*                                                                         *)
(* Python strings that the code inspects character by character (the       *)
(* --time value, exchange names) are sequences of one-character strings.   *)
(* The collaborators (database, import_candles, the clock, the interrupt   *)
(* signal) are the environment: their outcomes are chosen with \E.         *)
(***************************************************************************)
EXTENDS Integers, Sequences, FiniteSets, TLC

\* ------------------------------------------------------------------------
\* Bounds of the model
\* ------------------------------------------------------------------------
\* most connectivity failures the environment inflicts on one pair per cycle
MaxFails == 2
\* most rows the database returns in one cycle
MaxPairs == 2

\* the last day, counted from the day the process starts, on which a cycle
\* still starts in the specification with a clock
MaxDay == 3

\* ------------------------------------------------------------------------
\* Characters and strings
\* ------------------------------------------------------------------------
Digits == <<"0", "1", "2", "3", "4", "5", "6", "7", "8", "9">>

LowerAlpha == <<"a", "b", "c", "d", "e", "f", "g", "h", "i", "j", "k", "l", "m",
                "n", "o", "p", "q", "r", "s", "t", "u", "v", "w", "x", "y", "z">>

UpperAlpha == <<"A", "B", "C", "D", "E", "F", "G", "H", "I", "J", "K", "L", "M",
                "N", "O", "P", "Q", "R", "S", "T", "U", "V", "W", "X", "Y", "Z">>

IsDigit(c) == \E i \in 1..10 : Digits[i] = c

IsLower(c) == \E i \in 1..26 : LowerAlpha[i] = c

IsUpper(c) == \E i \in 1..26 : UpperAlpha[i] = c

\* value of one decimal digit character
DigitVal(c) == (CHOOSE i \in 1..10 : Digits[i] = c) - 1

\* int(s) for a string of decimal digits
RECURSIVE IntOf(_)
IntOf(s) ==
    IF Len(s) = 0 THEN 0
    ELSE 10 * IntOf(SubSeq(s, 1, Len(s) - 1)) + DigitVal(s[Len(s)])

\* position of the first ":" of s, or 0
ColonPos(s) ==
    IF \E i \in 1..Len(s) : s[i] = ":"
    THEN CHOOSE i \in 1..Len(s) : s[i] = ":" /\ \A j \in 1..(i - 1) : s[j] # ":"
    ELSE 0

\* ------------------------------------------------------------------------
\* datetime.strptime(s, "%H:%M"): TRUE when it returns, FALSE when it raises
\* ValueError.  %H is the regex 2[0-3]|[0-1]\d|\d, %M is [0-5]\d|\d; the
\* match is anchored at the start only, and data left after the match is an
\* error ("unconverted data remains").
\* ------------------------------------------------------------------------
StrptimeHourLen(s) ==
    IF Len(s) >= 2 /\ s[1] = "2" /\ s[2] \in {"0", "1", "2", "3"} THEN 2
    ELSE IF Len(s) >= 2 /\ s[1] \in {"0", "1"} /\ IsDigit(s[2]) THEN 2
    ELSE IF Len(s) >= 1 /\ IsDigit(s[1]) THEN 1
    ELSE 0

StrptimeMatchEnd(s) ==
    LET hl == StrptimeHourLen(s)
        p  == hl + 2
    IN  IF hl = 0 THEN 0
        ELSE IF Len(s) < hl + 1 \/ s[hl + 1] # ":" THEN 0
        ELSE IF Len(s) >= p + 1 /\ s[p] \in {"0", "1", "2", "3", "4", "5"}
                               /\ IsDigit(s[p + 1]) THEN p + 1
        ELSE IF Len(s) >= p /\ IsDigit(s[p]) THEN p
        ELSE 0

StrptimeOk(s) == StrptimeMatchEnd(s) # 0 /\ StrptimeMatchEnd(s) = Len(s)

\* ------------------------------------------------------------------------
\* log(msg): the function takes exactly one positional parameter
\* ------------------------------------------------------------------------
LogParams == {"msg"}

\* TRUE when a call of log that binds these names is accepted; a name that
\* is not a parameter raises TypeError, and so does a call that leaves the
\* required parameter unbound
LogAccepts(kwargs) == kwargs \subseteq LogParams /\ LogParams \subseteq kwargs

\* ------------------------------------------------------------------------
\* datetime and timedelta
\* ------------------------------------------------------------------------
SecondsPerDay == 86400

MicrosPerSecond == 1000000

\* a naive local datetime: day ordinal d and the wall-clock fields
DateTime(d, h, m, s, us) == [d |-> d, h |-> h, m |-> m, s |-> s, us |-> us]

\* datetime.replace(hour, minute, second, microsecond): the date is kept
Replace(dt, hh, mm, ss, us) == [dt EXCEPT !.h = hh, !.m = mm, !.s = ss, !.us = us]

SecondOfDay(dt) == dt.h * 3600 + dt.m * 60 + dt.s

\* a <= b on datetimes
DtLessEq(a, b) ==
    \/ a.d < b.d
    \/ a.d = b.d /\ SecondOfDay(a) < SecondOfDay(b)
    \/ a.d = b.d /\ SecondOfDay(a) = SecondOfDay(b) /\ a.us <= b.us

\* a < b on datetimes
DtLess(a, b) == DtLessEq(a, b) /\ a # b

\* dt + timedelta(days = n)
AddDays(dt, n) == [dt EXCEPT !.d = dt.d + n]

\* a - b as a normalised timedelta (0 <= seconds < 86400, 0 <= microseconds < 10^6)
DtSub(a, b) ==
    LET us0   == a.us - b.us
        brw1  == IF us0 < 0 THEN 1 ELSE 0
        us    == us0 + brw1 * MicrosPerSecond
        s0    == SecondOfDay(a) - SecondOfDay(b) - brw1
        brw2  == IF s0 < 0 THEN 1 ELSE 0
        s     == s0 + brw2 * SecondsPerDay
        days  == a.d - b.d - brw2
    IN  [days |-> days, seconds |-> s, microseconds |-> us]

\* timedelta.total_seconds(), as whole seconds and the microsecond fraction
TotalSeconds(td) == [s |-> td.days * SecondsPerDay + td.seconds, us |-> td.microseconds]

\* a duration of n whole seconds
Secs(n) == [s |-> n, us |-> 0]

\* dt + timedelta(seconds = dur)
DtAdd(dt, dur) ==
    LET us0 == dt.us + dur.us
        cry == IF us0 >= MicrosPerSecond THEN 1 ELSE 0
        sod == SecondOfDay(dt) + dur.s + cry
        rem == sod % SecondsPerDay
    IN  DateTime(dt.d + (sod \div SecondsPerDay), rem \div 3600,
                 (rem % 3600) \div 60, rem % 60, us0 - cry * MicrosPerSecond)

\* seconds_until_next with the comparison target < now
seconds_until_next_lt(time_str, now) ==
    LET c      == ColonPos(time_str)
        hh     == IntOf(SubSeq(time_str, 1, c - 1))
        mm     == IntOf(SubSeq(time_str, c + 1, Len(time_str)))
        target == Replace(now, hh, mm, 0, 0)
        next   == IF DtLess(target, now) THEN AddDays(target, 1) ELSE target
    IN  TotalSeconds(DtSub(next, now))

\* seconds_until_next with a target that keeps the seconds of now
seconds_until_next_keepsec(time_str, now) ==
    LET c      == ColonPos(time_str)
        hh     == IntOf(SubSeq(time_str, 1, c - 1))
        mm     == IntOf(SubSeq(time_str, c + 1, Len(time_str)))
        target == Replace(now, hh, mm, now.s, now.us)
        next   == IF DtLessEq(target, now) THEN AddDays(target, 1) ELSE target
    IN  TotalSeconds(DtSub(next, now))

\* seconds_until_next(time_str) when datetime.now() returns now
seconds_until_next(time_str, now) ==
    LET c      == ColonPos(time_str)
        hh     == IntOf(SubSeq(time_str, 1, c - 1))
        mm     == IntOf(SubSeq(time_str, c + 1, Len(time_str)))
        target == Replace(now, hh, mm, 0, 0)
        next   == IF DtLessEq(target, now) THEN AddDays(target, 1) ELSE target
    IN  TotalSeconds(DtSub(next, now))

\* ------------------------------------------------------------------------
\* Exchange names and map_db_exchange_to_enum
\* ------------------------------------------------------------------------
NameSpaced ==
    <<"B", "i", "n", "a", "n", "c", "e", " ", "P", "e", "r", "p", "e", "t",
      "u", "a", "l", " ", "F", "u", "t", "u", "r", "e", "s">>

NameDashed ==
    <<"b", "i", "n", "a", "n", "c", "e", "-", "p", "e", "r", "p", "e", "t",
      "u", "a", "l", "-", "f", "u", "t", "u", "r", "e", "s">>

NameUnknown ==
    <<"K", "r", "a", "k", "e", "n", " ", "S", "p", "o", "t">>

NameSpot ==
    <<"B", "i", "n", "a", "n", "c", "e", " ", "S", "p", "o", "t">>

AttrBPF ==
    <<"B", "I", "N", "A", "N", "C", "E", "_", "P", "E", "R", "P", "E", "T",
      "U", "A", "L", "_", "F", "U", "T", "U", "R", "E", "S">>

AttrSpot ==
    <<"B", "I", "N", "A", "N", "C", "E", "_", "S", "P", "O", "T">>

AttrModule ==
    <<"_", "_", "m", "o", "d", "u", "l", "e", "_", "_">>

\* the result of map_db_exchange_to_enum for a name without a match
None == "None"

\* dir(exchanges) in its sorted order, each attribute with its value
ExchangesDir ==
    << [name |-> AttrBPF,    value |-> "Binance Perpetual Futures"],
       [name |-> AttrSpot,   value |-> "Binance Spot"],
       [name |-> AttrModule, value |-> "jesse.enums"] >>

\* the module constant EXCHANGE
EXCHANGE == "Binance Perpetual Futures"

START_DATE == "2018-01-01"

\* str.upper() of one character
UpperOf(c) ==
    IF IsLower(c) THEN UpperAlpha[CHOOSE i \in 1..26 : LowerAlpha[i] = c] ELSE c

IsAlnum(c) == IsDigit(c) \/ IsLower(c) \/ IsUpper(c)

\* _norm without the upper()
RECURSIVE NormKeepCase(_)
NormKeepCase(s) ==
    IF Len(s) = 0 THEN << >>
    ELSE IF IsAlnum(s[1]) THEN << s[1] >> \o NormKeepCase(Tail(s))
    ELSE NormKeepCase(Tail(s))

\* _norm(s): re.sub(r'[^A-Za-z0-9]+', '', s).upper()
RECURSIVE Norm(_)
Norm(s) ==
    IF Len(s) = 0 THEN << >>
    ELSE IF IsAlnum(s[1]) THEN << UpperOf(s[1]) >> \o Norm(Tail(s))
    ELSE Norm(Tail(s))

\* a lookup table built from every name of dir(), without the isupper filter
IsUpperStrAny(s) == Len(s) >= 0

\* str.isupper(): no lowercase character and at least one uppercase one
IsUpperStr(s) ==
    /\ \A i \in 1..Len(s) : ~IsLower(s[i])
    /\ \E i \in 1..Len(s) : IsUpper(s[i])

\* map_db_exchange_to_enum falling back to the module constant EXCHANGE
map_db_exchange_to_enum_default(name) ==
    LET key   == Norm(name)
        match == { i \in 1..Len(ExchangesDir) :
                     /\ IsUpperStr(ExchangesDir[i].name)
                     /\ Norm(ExchangesDir[i].name) = key }
    IN  IF match # {}
        THEN ExchangesDir[CHOOSE i \in match : \A j \in match : j <= i].value
        ELSE EXCHANGE

\* map_db_exchange_to_enum(name): the dict comprehension keeps, for equal
\* keys, the attribute that comes last in dir()
map_db_exchange_to_enum(name) ==
    LET key   == Norm(name)
        match == { i \in 1..Len(ExchangesDir) :
                     /\ IsUpperStr(ExchangesDir[i].name)
                     /\ Norm(ExchangesDir[i].name) = key }
    IN  IF match # {}
        THEN ExchangesDir[CHOOSE i \in match : \A j \in match : j <= i].value
        ELSE None

\* ------------------------------------------------------------------------
\* The database and the import library
\* ------------------------------------------------------------------------
\* jh.dashy_symbol on the symbols the model's database stores
DashySymbol(sym) ==
    CASE sym = "BTCUSDT" -> "BTC-USDT"
      [] sym = "ETHUSDT" -> "ETH-USDT"
      [] sym = "XBTUSD"  -> "XBT-USD"
      [] OTHER           -> sym

\* rows the candle table can hold
RowPool ==
    { [exchange |-> NameSpaced,  symbol |-> "BTCUSDT"],
      [exchange |-> NameSpot,    symbol |-> "BTCUSDT"],
      [exchange |-> NameUnknown, symbol |-> "XBTUSD"] }

\* results of SELECT DISTINCT: lists of distinct rows
DbResults ==
    UNION { { r \in [1..n -> RowPool] : \A i, j \in 1..n : i # j => r[i] # r[j] }
            : n \in 0..MaxPairs }

\* get_symbols_from_db falling back to a default pair for an empty table
get_symbols_from_db_fallback(rows) ==
    IF Len(rows) = 0
    THEN << [exchange |-> NameSpaced, symbol |-> "BTC-USDT"] >>
    ELSE [i \in 1..Len(rows) |->
            [exchange |-> rows[i].exchange, symbol |-> DashySymbol(rows[i].symbol)]]

\* get_symbols_from_db reading one row (fetchone) instead of all
get_symbols_from_db_first(rows) ==
    [i \in 1..(IF Len(rows) = 0 THEN 0 ELSE 1) |->
        [exchange |-> rows[i].exchange, symbol |-> DashySymbol(rows[i].symbol)]]

\* get_symbols_from_db() for the fetched rows
get_symbols_from_db(rows) ==
    [i \in 1..Len(rows) |->
        [exchange |-> rows[i].exchange, symbol |-> DashySymbol(rows[i].symbol)]]

Msg429 == <<"H", "T", "T", "P", " ", "4", "2", "9">>

MsgDown == <<"r", "e", "f", "u", "s", "e", "d">>

\* what a call of import_candles can do: return, raise ConnectionError with
\* a message, or raise another exception
ImportOutcomes ==
    { [kind |-> "ok",              msg |-> << >>],
      [kind |-> "ConnectionError", msg |-> Msg429],
      [kind |-> "ConnectionError", msg |-> MsgDown],
      [kind |-> "Exception",       msg |-> << >>] }

\* '429' in str(e)
Has429(msg) ==
    \E i \in 1..Len(msg) :
        i + 2 <= Len(msg) /\ msg[i] = "4" /\ msg[i + 1] = "2" /\ msg[i + 2] = "9"

\* the except clause of fetch_candles
FetchCatches(outcome) == outcome.kind = "ConnectionError"

\* fetch_candles with the two sleeps exchanged
BackoffSecondsSwapped(msg) == IF Has429(msg) THEN 300 ELSE 60

\* fetch_candles sleeping one minute after every caught error
BackoffSecondsMinute(msg) == IF Has429(msg) THEN 60 ELSE 60

\* the sleep of fetch_candles after a caught error
BackoffSeconds(msg) == IF Has429(msg) THEN 60 ELSE 300

\* the sleep of the retry loop of main
RetryWait == 5

\* the sleep after a cycle when no --time was given
DailySleep == 86400

\* ------------------------------------------------------------------------
\* Command line
\* ------------------------------------------------------------------------
Time0900 == <<"0", "9", ":", "0", "0">>

Time2359 == <<"2", "3", ":", "5", "9">>

Time2500 == <<"2", "5", ":", "0", "0">>

Time999 == <<"9", ":", "9", "9">>

\* values of args.time; << >> stands for None (no --time), which the code
\* treats like the empty string
TimeArgs == { << >>, Time0900, Time2359, Time2500, Time999 }

\* readings of datetime.now() in the runner
Moments ==
    { DateTime(0, 9, 0, 0, 0), DateTime(0, 10, 0, 0, 0),
      DateTime(0, 23, 59, 30, 500000) }

\* exit status of sys.exit(2) / sys.exit(0)
ExitUsage == 2

ExitOk == 0

\* exit status of an uncaught exception
ExitUncaught == 1

\* exit status of an uncaught KeyboardInterrupt
ExitSigint == 130

\* exitCode while the process runs
Running == -1

\* the positions of main inside its try block
TryPcs == {"query", "for", "fetch", "backoff", "retry_wait", "post_sleep"}

\* TRUE when a KeyboardInterrupt raised at position p reaches the handler
InterruptCaught(p) == p \in TryPcs

\* the exit status of parse_args for a --time value, Running when it returns
ParseArgsExit(t) ==
    IF t # << >> /\ ~StrptimeOk(t)
    THEN IF LogAccepts({"msg", "file"}) THEN ExitUsage ELSE ExitUncaught
    ELSE Running

\* ------------------------------------------------------------------------
\* State
\* ------------------------------------------------------------------------
VARIABLES
    pc,             \* position of the process
    argNow,         \* args.now
    argTime,        \* args.time
    exitCode,       \* exit status, Running while the process lives
    errOut,         \* what was written to the error stream
    shutdownLogged, \* the handler of KeyboardInterrupt has logged its message
    interruptedAt,  \* the position an interrupt signal was delivered at
    symbols,        \* the list of the current cycle
    idx,            \* index in symbols of the pair of the for loop, 0 before it
    exch_enum,      \* the mapped exchange of the current pair
    lastErr,        \* message of the error of the last failed import attempt
    status,         \* per pair: "pending", "imported" or "skipped"
    warned,         \* indices of the pairs a warning was logged for
    calls,          \* per pair: calls of import_candles in this cycle
    fails429,       \* per pair: attempts that failed with a 429 message
    failsNet,       \* per pair: attempts that failed with another message
    s60,            \* per pair: sleeps of 60 seconds issued
    s300,           \* per pair: sleeps of 300 seconds issued
    s5,             \* per pair: sleeps of 5 seconds issued
    importedSeq,    \* the pairs imported in this cycle, in order
    lastCall,       \* arguments of the last call of import_candles
    waitSeq,        \* the sleeps issued since the last import attempt
    nowRead,        \* the last reading of datetime.now()
    secs,           \* length of the sleep in progress
    everQueried,    \* the database was queried
    everImported,   \* import_candles was called
    everSlept,      \* time.sleep was called
    rows,           \* the rows the last query fetched
    cycleQueries,   \* queries since the current iteration of the main loop began
    mapIn,          \* exchange names handed to map_db_exchange_to_enum on its own
    mapOut,         \* the results for mapIn
    clock,          \* the local wall clock
    cycleStart,     \* the clock when the current cycle queried the database
    prevStart       \* the clock when the cycle before it did

vars ==
    << pc, argNow, argTime, exitCode, errOut, shutdownLogged, interruptedAt,
       symbols, idx, exch_enum, lastErr, status, warned, calls, fails429,
       failsNet, s60, s300, s5, importedSeq, lastCall, waitSeq, nowRead,
       secs, everQueried, everImported, everSlept, rows, cycleQueries,
       mapIn, mapOut, clock, cycleStart, prevStart >>

cfgVars == << argNow, argTime >>

cycleVars ==
    << symbols, idx, exch_enum, lastErr, status, warned, calls, fails429,
       failsNet, s60, s300, s5, importedSeq, lastCall, waitSeq >>

everVars == << everQueried, everImported, everSlept >>

sleepVars == << nowRead, secs >>

queryVars == << rows, cycleQueries >>

pureVars == << mapIn, mapOut >>

clockVars == << clock, cycleStart, prevStart >>

\* cycleStart and prevStart before the first and the second cycle
NoMoment == [d |-> -1, h |-> 0, m |-> 0, s |-> 0, us |-> 0]

endVars == << exitCode, errOut, shutdownLogged, interruptedAt >>

NoSleep == Secs(0)

NoCall == [exchange |-> None, symbol |-> "", start_date |-> ""]

\* the state of a process whose command line gave these arguments
InitWith(now, time, start, clock0) ==
    /\ pc = start
    /\ argNow = now
    /\ argTime = time
    /\ exitCode = Running
    /\ errOut = "none"
    /\ shutdownLogged = FALSE
    /\ interruptedAt = "none"
    /\ symbols = << >>
    /\ idx = 0
    /\ exch_enum = None
    /\ lastErr = << >>
    /\ status = << >>
    /\ warned = {}
    /\ calls = << >>
    /\ fails429 = << >>
    /\ failsNet = << >>
    /\ s60 = << >>
    /\ s300 = << >>
    /\ s5 = << >>
    /\ importedSeq = << >>
    /\ lastCall = NoCall
    /\ waitSeq = << >>
    /\ nowRead = clock0
    /\ secs = NoSleep
    /\ everQueried = FALSE
    /\ everImported = FALSE
    /\ everSlept = FALSE
    /\ rows = << >>
    /\ cycleQueries = 0
    /\ mapIn = << >>
    /\ mapOut = << >>
    /\ clock = clock0
    /\ cycleStart = NoMoment
    /\ prevStart = NoMoment

Midnight == DateTime(0, 0, 0, 0, 0)

Init ==
    \E now \in BOOLEAN, time \in TimeArgs : InitWith(now, time, "parse_args", Midnight)

\* ------------------------------------------------------------------------
\* Startup
\* ------------------------------------------------------------------------
\* parse_args(): validation of --time
ParseArgs ==
    /\ pc = "parse_args"
    /\ LET rc == ParseArgsExit(argTime)
       IN  IF rc = Running
           THEN /\ pc' = "startup"
                /\ UNCHANGED << exitCode, errOut >>
           ELSE /\ pc' = "exited"
                /\ exitCode' = rc
                /\ errOut' = IF rc = ExitUsage THEN "message" ELSE "traceback"
    /\ UNCHANGED << cfgVars, cycleVars, everVars, shutdownLogged, interruptedAt, sleepVars >>
    /\ UNCHANGED << queryVars, pureVars, clockVars >>

\* sleep_until(time_str): the duration is computed from one clock reading
sleep_until(time_str, now) == seconds_until_next(time_str, now)

\* an initial wait that --now does not cancel
InitialWaitIgnoreNow == argTime # << >>

\* TRUE when main waits before its first cycle
InitialWait == argTime # << >> /\ ~argNow

\* main, the initial wait logic
DoStartup(now) ==
    /\ pc = "startup"
    /\ IF InitialWait
       THEN /\ nowRead' = now
            /\ secs' = sleep_until(argTime, now)
            /\ everSlept' = TRUE
            /\ pc' = "init_wait"
       ELSE /\ pc' = "query"
            /\ UNCHANGED << sleepVars, everSlept >>
    /\ UNCHANGED << cfgVars, cycleVars, endVars, everQueried, everImported >>
    /\ UNCHANGED << queryVars, pureVars >>

\* the initial sleep returns
DoInitWaitDone ==
    /\ pc = "init_wait"
    /\ pc' = "query"
    /\ secs' = NoSleep
    /\ UNCHANGED << cfgVars, cycleVars, endVars, everVars, nowRead >>
    /\ UNCHANGED << queryVars, pureVars >>

\* ------------------------------------------------------------------------
\* One cycle
\* ------------------------------------------------------------------------
Zeros(n) == [i \in 1..n |-> 0]

\* symbols = get_symbols_from_db() returns
DoQuery(fetched) ==
    /\ pc = "query"
    /\ rows' = fetched
    /\ cycleQueries' = cycleQueries + 1
    /\ LET syms == get_symbols_from_db(fetched)
       IN  /\ symbols' = syms
           /\ status' = [i \in 1..Len(syms) |-> "pending"]
           /\ calls' = Zeros(Len(syms))
           /\ fails429' = Zeros(Len(syms))
           /\ failsNet' = Zeros(Len(syms))
           /\ s60' = Zeros(Len(syms))
           /\ s300' = Zeros(Len(syms))
           /\ s5' = Zeros(Len(syms))
    /\ idx' = 0
    /\ exch_enum' = None
    /\ lastErr' = << >>
    /\ warned' = {}
    /\ importedSeq' = << >>
    /\ waitSeq' = << >>
    /\ everQueried' = TRUE
    /\ pc' = "for"
    /\ UNCHANGED << cfgVars, endVars, lastCall, sleepVars, everImported, everSlept >>
    /\ UNCHANGED pureVars

\* get_symbols_from_db() raises (the database is unreachable): main has no
\* handler for it
QueryFails ==
    /\ pc = "query"
    /\ everQueried' = TRUE
    /\ pc' = "exited"
    /\ exitCode' = ExitUncaught
    /\ errOut' = "traceback"
    /\ UNCHANGED << cfgVars, cycleVars, shutdownLogged, interruptedAt, sleepVars,
                    everImported, everSlept >>
    /\ UNCHANGED << queryVars, pureVars, clockVars >>

\* the for loop takes the next pair and its exchange has no match: warning, continue
ForSkip ==
    /\ pc = "for"
    /\ idx < Len(symbols)
    /\ map_db_exchange_to_enum(symbols[idx + 1].exchange) = None
    /\ idx' = idx + 1
    /\ exch_enum' = None
    /\ warned' = warned \cup {idx + 1}
    /\ status' = [status EXCEPT ![idx + 1] = "skipped"]
    /\ UNCHANGED << pc, cfgVars, endVars, everVars, symbols, lastErr, calls,
                    fails429, failsNet, s60, s300, s5, importedSeq, lastCall,
                    waitSeq, sleepVars >>
    /\ UNCHANGED << queryVars, pureVars, clockVars >>

\* the for loop takes the next pair and its exchange is mapped: enter the
\* retry loop
ForStart ==
    /\ pc = "for"
    /\ idx < Len(symbols)
    /\ map_db_exchange_to_enum(symbols[idx + 1].exchange) # None
    /\ idx' = idx + 1
    /\ exch_enum' = map_db_exchange_to_enum(symbols[idx + 1].exchange)
    /\ waitSeq' = << >>
    /\ lastErr' = << >>
    /\ pc' = "fetch"
    /\ UNCHANGED << cfgVars, endVars, everVars, symbols, status, warned, calls,
                    fails429, failsNet, s60, s300, s5, importedSeq, lastCall,
                    sleepVars >>
    /\ UNCHANGED << queryVars, pureVars, clockVars >>

\* a sleep after the cycle that falls back to 24 hours when --now was given
PostCycleSleepUnlessNow(time, now) ==
    IF time # << >> /\ ~argNow THEN sleep_until(time, now) ELSE Secs(DailySleep)

\* a sleep after the cycle that is always 24 hours long
PostCycleSleepDaily(time, now) ==
    IF time # << >> THEN Secs(DailySleep) ELSE Secs(DailySleep)

\* the length of the sleep after a cycle
PostCycleSleep(time, now) ==
    IF time # << >> THEN sleep_until(time, now) ELSE Secs(DailySleep)

\* the for loop is exhausted: the sleep after the cycle begins
DoForEnd(now) ==
    /\ pc = "for"
    /\ idx = Len(symbols)
    /\ nowRead' = IF argTime # << >> THEN now ELSE nowRead
    /\ secs' = PostCycleSleep(argTime, now)
    /\ everSlept' = TRUE
    /\ pc' = "post_sleep"
    /\ UNCHANGED << cfgVars, cycleVars, endVars, everQueried, everImported >>
    /\ UNCHANGED << queryVars, pureVars >>

\* the sleep after the cycle returns: the while loop of main iterates
DoPostSleepDone ==
    /\ pc = "post_sleep"
    /\ pc' = "query"
    /\ secs' = NoSleep
    /\ cycleQueries' = 0
    /\ UNCHANGED << cfgVars, cycleVars, endVars, everVars, nowRead, rows, pureVars >>

\* ------------------------------------------------------------------------
\* fetch_candles and the retry loop
\* ------------------------------------------------------------------------
\* a call that passes the module constant EXCHANGE
CallArgsConst ==
    [exchange |-> EXCHANGE, symbol |-> symbols[idx].symbol, start_date |-> START_DATE]

\* the arguments main passes to fetch_candles and on to import_candles
CallArgs ==
    [exchange |-> exch_enum, symbol |-> symbols[idx].symbol, start_date |-> START_DATE]

\* a main that returns after the first successful import
AfterSuccessStop == "exited"

\* a retry loop that does not end on success
AfterSuccessAgain == "fetch"

\* the position the for loop of main reaches after a successful import
AfterSuccess == "for"

\* a retry loop that leaves the pair after one failed attempt
AfterRetryWaitGiveUp == "for"

\* a retry loop that leaves the pair after its second attempt
AfterRetryWaitCapped == IF calls[idx] >= 2 THEN "for" ELSE "fetch"

\* the position the retry loop reaches after its sleep
AfterRetryWait == "fetch"

\* import_candles returns: fetch_candles returns True and the loop ends
DoFetchOk ==
    /\ pc = "fetch"
    /\ calls' = [calls EXCEPT ![idx] = @ + 1]
    /\ lastCall' = CallArgs
    /\ everImported' = TRUE
    /\ status' = [status EXCEPT ![idx] = "imported"]
    /\ importedSeq' = Append(importedSeq, symbols[idx])
    /\ waitSeq' = << >>
    /\ pc' = AfterSuccess
    /\ UNCHANGED << cfgVars, endVars, symbols, idx, exch_enum, lastErr, warned,
                    fails429, failsNet, s60, s300, s5, sleepVars, everQueried,
                    everSlept >>
    /\ UNCHANGED << queryVars, pureVars >>

\* import_candles raises ConnectionError: fetch_candles sleeps 60 or 300 seconds
DoFetchConnErr ==
    /\ pc = "fetch"
    /\ fails429[idx] + failsNet[idx] < MaxFails
    /\ \E o \in ImportOutcomes :
        /\ FetchCatches(o)
        /\ lastErr' = o.msg
        /\ fails429' = [fails429 EXCEPT ![idx] = @ + (IF Has429(o.msg) THEN 1 ELSE 0)]
        /\ failsNet' = [failsNet EXCEPT ![idx] = @ + (IF Has429(o.msg) THEN 0 ELSE 1)]
        /\ secs' = Secs(BackoffSeconds(o.msg))
        /\ s60' = [s60 EXCEPT ![idx] = @ + (IF BackoffSeconds(o.msg) = 60 THEN 1 ELSE 0)]
        /\ s300' = [s300 EXCEPT ![idx] = @ + (IF BackoffSeconds(o.msg) = 300 THEN 1 ELSE 0)]
        /\ waitSeq' = << BackoffSeconds(o.msg) >>
    /\ calls' = [calls EXCEPT ![idx] = @ + 1]
    /\ lastCall' = CallArgs
    /\ everImported' = TRUE
    /\ everSlept' = TRUE
    /\ pc' = "backoff"
    /\ UNCHANGED << cfgVars, endVars, symbols, idx, exch_enum, status, warned,
                    s5, importedSeq, everQueried, nowRead >>
    /\ UNCHANGED << queryVars, pureVars >>

\* import_candles raises an exception that is not a ConnectionError: neither
\* fetch_candles nor main handles it
FetchRaises ==
    /\ pc = "fetch"
    /\ \E o \in ImportOutcomes : o.kind # "ok" /\ ~FetchCatches(o)
    /\ calls' = [calls EXCEPT ![idx] = @ + 1]
    /\ lastCall' = CallArgs
    /\ everImported' = TRUE
    /\ pc' = "exited"
    /\ exitCode' = ExitUncaught
    /\ errOut' = "traceback"
    /\ UNCHANGED << cfgVars, symbols, idx, exch_enum, lastErr, status, warned,
                    fails429, failsNet, s60, s300, s5, importedSeq, waitSeq,
                    sleepVars, shutdownLogged, interruptedAt, everQueried,
                    everSlept >>
    /\ UNCHANGED << queryVars, pureVars, clockVars >>

\* the sleep of fetch_candles returns, fetch_candles returns False and main
\* sleeps 5 seconds
DoBackoffDone ==
    /\ pc = "backoff"
    /\ secs' = Secs(RetryWait)
    /\ s5' = [s5 EXCEPT ![idx] = @ + 1]
    /\ waitSeq' = Append(waitSeq, RetryWait)
    /\ pc' = "retry_wait"
    /\ UNCHANGED << cfgVars, endVars, everVars, symbols, idx, exch_enum, lastErr,
                    status, warned, calls, fails429, failsNet, s60, s300,
                    importedSeq, lastCall, nowRead >>
    /\ UNCHANGED << queryVars, pureVars >>

\* the 5-second sleep returns: the retry loop iterates
DoRetryWaitDone ==
    /\ pc = "retry_wait"
    /\ secs' = NoSleep
    /\ pc' = AfterRetryWait
    /\ UNCHANGED << cfgVars, cycleVars, endVars, everVars, nowRead >>
    /\ UNCHANGED << queryVars, pureVars >>

\* ------------------------------------------------------------------------
\* Interrupt
\* ------------------------------------------------------------------------
\* KeyboardInterrupt is raised at the current position of main
Interrupt ==
    /\ pc \notin {"parse_args", "exited"}
    /\ interruptedAt' = pc
    /\ pc' = "exited"
    /\ IF InterruptCaught(pc)
       THEN /\ shutdownLogged' = TRUE
            /\ exitCode' = ExitOk
            /\ UNCHANGED errOut
       ELSE /\ exitCode' = ExitSigint
            /\ errOut' = "traceback"
            /\ UNCHANGED shutdownLogged
    /\ UNCHANGED << cfgVars, cycleVars, everVars, sleepVars >>
    /\ UNCHANGED << queryVars, pureVars, clockVars >>

\* ------------------------------------------------------------------------
\* The process with the clock as an input: every reading of datetime.now()
\* is drawn from Moments
\* ------------------------------------------------------------------------
Startup == \E now \in Moments : DoStartup(now) /\ UNCHANGED clockVars

InitWaitDone == DoInitWaitDone /\ UNCHANGED clockVars

Query == \E fetched \in DbResults : DoQuery(fetched) /\ UNCHANGED clockVars

ForEnd == \E now \in Moments : DoForEnd(now) /\ UNCHANGED clockVars

PostSleepDone == DoPostSleepDone /\ UNCHANGED clockVars

FetchOk == DoFetchOk /\ UNCHANGED clockVars

FetchConnErr == DoFetchConnErr /\ UNCHANGED clockVars

BackoffDone == DoBackoffDone /\ UNCHANGED clockVars

RetryWaitDone == DoRetryWaitDone /\ UNCHANGED clockVars

Next ==
    \/ ParseArgs
    \/ Startup
    \/ InitWaitDone
    \/ Query
    \/ QueryFails
    \/ ForSkip
    \/ ForStart
    \/ ForEnd
    \/ PostSleepDone
    \/ FetchOk
    \/ FetchConnErr
    \/ FetchRaises
    \/ BackoffDone
    \/ RetryWaitDone
    \/ Interrupt

Spec == Init /\ [][Next]_vars

\* ------------------------------------------------------------------------
\* seconds_until_next on its own: every accepted --time value against a
\* grid of clock readings
\* ------------------------------------------------------------------------
TwoDigits(n) == << Digits[(n \div 10) + 1], Digits[(n % 10) + 1] >>

OneOrTwoDigits(n) == IF n < 10 THEN << Digits[n + 1] >> ELSE TwoDigits(n)

\* the HH:MM text of hour h and minute m, each zero-padded or not
TimeStr(h, m, padH, padM) ==
    (IF padH THEN TwoDigits(h) ELSE OneOrTwoDigits(h)) \o << ":" >>
        \o (IF padM THEN TwoDigits(m) ELSE OneOrTwoDigits(m))

\* the --time values parse_args accepts
SunTimes ==
    { t \in { TimeStr(h, m, padH, padM) :
                h \in 0..23, m \in 0..59, padH \in BOOLEAN, padM \in BOOLEAN } :
        StrptimeOk(t) }

\* clock readings: on and around the full minute, early and late in the day
SunMoments ==
    { DateTime(0, h, m, s, us) :
        h \in {0, 9, 10, 23}, m \in {0, 59}, s \in {0, 59}, us \in {0, 1, 999999} }

SunInit ==
    \E time \in SunTimes, now \in SunMoments : InitWith(FALSE, time, "sun_call", now)

\* one call of seconds_until_next(args.time)
SunCall ==
    /\ pc = "sun_call"
    /\ secs' = seconds_until_next(argTime, nowRead)
    /\ pc' = "sun_done"
    /\ UNCHANGED << cfgVars, cycleVars, endVars, everVars, nowRead >>
    /\ UNCHANGED << queryVars, pureVars, clockVars >>

SunNext == SunCall

SunSpec == SunInit /\ [][SunNext]_vars

\* ------------------------------------------------------------------------
\* Properties
\* ------------------------------------------------------------------------
\* the pairs of the current cycle
Pairs == 1..Len(symbols)

\* the pair has a known exchange
Mapped(i) == symbols[i].exchange \in {NameSpaced, NameDashed, NameSpot}

\* the process has terminated
Exited == pc = "exited"

\* an interrupt signal was delivered
Interrupted == interruptedAt # "none"

\* the phases after argument parsing in which the process spends its time:
\* the initial wait, the query, an import attempt, the backoffs and the
\* sleep after the cycle
SignalPhases ==
    {"init_wait", "query", "fetch", "backoff", "retry_wait", "post_sleep"}

\* C1: whenever the process receives an interrupt signal after argument
\* parsing, in any of its phases, it logs a message and terminates with exit
\* code 0, and the interrupt is the only normal termination: the main loop
\* has no other exit.
C1_InterruptExitsZero ==
    /\ interruptedAt \in SignalPhases => exitCode = ExitOk /\ shutdownLogged
    /\ Exited /\ exitCode = ExitOk => Interrupted

\* C2: a --time value that is not a valid HH:MM time ends startup with exit
\* code 2 and an error message on the error stream, before any database
\* query, import call or sleep; a valid value lets the run continue.
C2_InvalidTimeExitsTwo ==
    pc # "parse_args" =>
        IF argTime \in {Time2500, Time999}
        THEN /\ Exited
             /\ exitCode = ExitUsage
             /\ errOut = "message"
             /\ ~everQueried /\ ~everImported /\ ~everSlept
        ELSE exitCode # ExitUsage /\ (pc = "startup" => exitCode = Running)

\* C3: once the main loop has been entered, no error of the database query
\* or of an import call terminates the process: it is running, or it has
\* exited with code 0 because of an interrupt.
C3_NoErrorEndsLoop ==
    everQueried => \/ exitCode = Running
                   \/ exitCode = ExitOk /\ Interrupted

\* C4: a pair whose attempts failed k times with a 429 error and then
\* succeeded got exactly k sleeps of 60 seconds, no sleep of 300 seconds and
\* k + 1 import calls, is reported as imported, and the loop is on a later
\* pair only after that.
C4_RateLimitBackoffs ==
    /\ \A i \in Pairs :
        status[i] = "imported" /\ failsNet[i] = 0 =>
            /\ s60[i] = fails429[i]
            /\ s300[i] = 0
            /\ calls[i] = fails429[i] + 1
            /\ \E n \in 1..Len(importedSeq) : importedSeq[n] = symbols[i]
    /\ \A i \in Pairs : i < idx /\ Mapped(i) => status[i] = "imported"

C4_Witness ==
    \E i \in Pairs :
        /\ status[i] = "imported"
        /\ fails429[i] = 2
        /\ failsNet[i] = 0
        /\ s60[i] = 2
        /\ idx > i

\* C5: between a failed attempt and the retry on the same pair lie exactly
\* two sleeps, first 60 seconds for a 429 message or 300 seconds for another
\* connectivity error, then 5 seconds: 65 or 305 seconds in total.
C5_WaitsBeforeRetry ==
    /\ pc = "fetch" /\ calls[idx] > 0 =>
        /\ lastErr \in {Msg429, MsgDown}
        /\ waitSeq = << (IF lastErr = Msg429 THEN 60 ELSE 300), 5 >>
        /\ waitSeq[1] + waitSeq[2] = (IF lastErr = Msg429 THEN 65 ELSE 305)
    /\ pc = "backoff" => secs = Secs(IF lastErr = Msg429 THEN 60 ELSE 300)
    /\ pc = "retry_wait" => secs = Secs(5) /\ Len(waitSeq) = 2

C5_Witness ==
    /\ pc = "fetch"
    /\ calls[idx] = 2
    /\ lastErr = MsgDown
    /\ fails429[idx] = 1
    /\ waitSeq = << 300, 5 >>

\* C6: the pairs are handled one after another in the order of the list: a
\* pair is attempted only when every earlier pair is imported or skipped,
\* and the sleep after the cycle begins only when every mapped pair is
\* imported.
C6_StrictOrder ==
    /\ \A i \in Pairs :
        calls[i] > 0 \/ i <= idx =>
            \A j \in 1..(i - 1) : status[j] \in {"imported", "skipped"}
    /\ pc = "post_sleep" => \A i \in Pairs : Mapped(i) => status[i] = "imported"

C6_Witness ==
    /\ pc = "post_sleep"
    /\ Len(symbols) = 2
    /\ status[1] = "imported" /\ calls[1] = 2
    /\ status[2] = "imported" /\ calls[2] = 2

\* C7: retries have no cap: after a failed attempt and its waits the next
\* step of the runner is another attempt on the same pair, however many
\* attempts have failed, and the runner leaves a pair it has attempted only
\* when the import has succeeded; so a pair that fails forever holds the
\* runner forever.
C7_NoRetryCap ==
    [][ /\ (pc \in {"backoff", "retry_wait"} /\ pc' # "exited" =>
                /\ idx' = idx
                /\ symbols' = symbols
                /\ status'[idx] = "pending"
                /\ pc' = (IF pc = "backoff" THEN "retry_wait" ELSE "fetch"))
        /\ (pc \in {"fetch", "backoff", "retry_wait"}
               /\ pc' \in {"for", "post_sleep", "query"} =>
                /\ pc = "fetch"
                /\ status'[idx] = "imported"
                /\ calls'[idx] = fails429[idx] + failsNet[idx] + 1) ]_vars

C7_Witness ==
    /\ pc = "for"
    /\ idx > 0
    /\ status[idx] = "imported"
    /\ fails429[idx] >= 1 /\ failsNet[idx] >= 1
    /\ fails429[idx] + failsNet[idx] = MaxFails
    /\ calls[idx] = MaxFails + 1

\* C8: a pair whose exchange name has no match gets a warning, no import
\* call and no backoff wait, and the loop continues; the mapped pairs of the
\* cycle are imported as if the unmapped pair were not in the list.
C8_UnmappedSkipped ==
    /\ \A i \in Pairs :
        ~Mapped(i) =>
            /\ calls[i] = 0 /\ s60[i] = 0 /\ s300[i] = 0 /\ s5[i] = 0
            /\ (i <= idx => status[i] = "skipped" /\ i \in warned)
    /\ \A i \in Pairs : Mapped(i) => i \notin warned /\ status[i] # "skipped"
    /\ pc = "post_sleep" => importedSeq = SelectSeq(symbols, LAMBDA p : p.exchange # NameUnknown)

C8_Witness ==
    /\ pc = "post_sleep"
    /\ Len(symbols) = 2
    /\ symbols[1].exchange = NameUnknown
    /\ 1 \in warned
    /\ importedSeq = << symbols[2] >>

\* the time of day of --time value hour h, minute m, in seconds
TimeOfDay(h, m) == h * 3600 + m * 60

\* the wait from time of day (sod seconds + us microseconds) to the next
\* moment whose time of day is t seconds, t itself excluded when it is now
ExpectedWait(t, sod, us) ==
    LET whole == IF t > sod THEN t - sod ELSE t - sod + SecondsPerDay
    IN  IF us = 0 THEN [s |-> whole, us |-> 0]
        ELSE [s |-> whole - 1, us |-> MicrosPerSecond - us]

\* C9: for every valid time T and every call moment, seconds_until_next(T)
\* returns r with 0 <= r <= 86400, and the moment now + r is strictly later
\* than now, also when now is exactly T:00.
C9_RangeAndFuture ==
    pc = "sun_done" =>
        /\ secs.s >= 0 /\ secs.us >= 0
        /\ secs.s < SecondsPerDay \/ (secs.s = SecondsPerDay /\ secs.us = 0)
        /\ secs.s > 0 \/ secs.us > 0
        /\ DtLess(nowRead, DtAdd(nowRead, secs))

C9_Witness ==
    /\ pc = "sun_done"
    /\ argTime = Time0900
    /\ nowRead = DateTime(0, 9, 0, 0, 0)
    /\ secs = Secs(86400)

\* C10: seconds_until_next(T) is T - now when the time of day of T is after
\* now and T - now + 86400 otherwise (now 10:00: T 09:00 gives 23 hours,
\* T 11:00 gives 1 hour).
C10_TodayOrTomorrow ==
    pc = "sun_done" =>
        LET c == ColonPos(argTime)
            hourText == SubSeq(argTime, 1, c - 1)
            minuteText == SubSeq(argTime, c + 1, Len(argTime))
        IN  \A h \in 0..23 :
                hourText \in {TwoDigits(h), OneOrTwoDigits(h)} =>
                    \A m \in 0..59 :
                        minuteText \in {TwoDigits(m), OneOrTwoDigits(m)} =>
                            secs = ExpectedWait(TimeOfDay(h, m),
                                                SecondOfDay(nowRead), nowRead.us)

C10_Witness ==
    /\ pc = "sun_done"
    /\ argTime = Time0900
    /\ nowRead = DateTime(0, 10, 0, 0, 0)
    /\ secs = Secs(23 * 3600)

\* the --time values of the runner that are valid times
ValidTimeArgs == {Time0900, Time2359}

\* the time of day, in seconds, of a value of ValidTimeArgs
ArgTimeOfDay(t) == IF t = Time0900 THEN TimeOfDay(9, 0) ELSE TimeOfDay(23, 59)

\* a daily time is configured and --now was not given
WaitConfigured == argTime \in ValidTimeArgs /\ ~argNow

\* C11: with a daily time and without --now the first database query comes
\* after exactly one wait, which lasts until the next occurrence of that
\* time; in every other configuration the first query comes with no wait
\* before it.
C11_StartupWait ==
    [][ /\ (pc' = "init_wait" /\ pc # "init_wait" =>
                /\ pc = "startup"
                /\ WaitConfigured
                /\ ~everSlept /\ ~everQueried
                /\ secs' = ExpectedWait(ArgTimeOfDay(argTime),
                                        SecondOfDay(nowRead'), nowRead'.us))
        /\ (pc' = "query" /\ pc # "query" /\ ~everQueried =>
                IF WaitConfigured
                THEN pc = "init_wait" /\ everSlept
                ELSE pc = "startup" /\ ~everSlept' /\ secs' = NoSleep) ]_vars

C11_Witness ==
    /\ pc = "query"
    /\ ~everQueried
    /\ everSlept
    /\ argTime = Time0900 /\ ~argNow
    /\ nowRead = DateTime(0, 10, 0, 0, 0)

\* C12: after a cycle whose pairs are all imported or skipped there is
\* exactly one sleep before the next query; it lasts until the next
\* occurrence of the daily time when --time is configured, with or without
\* --now, and 86400 seconds otherwise.
C12_PostCycleSleep ==
    [][ /\ (pc' = "post_sleep" /\ pc # "post_sleep" =>
                /\ pc = "for"
                /\ \A i \in Pairs : status[i] \in {"imported", "skipped"}
                /\ secs' = IF argTime \in ValidTimeArgs
                           THEN ExpectedWait(ArgTimeOfDay(argTime),
                                             SecondOfDay(nowRead'), nowRead'.us)
                           ELSE Secs(86400))
        /\ (pc = "post_sleep" /\ pc' \notin {"post_sleep", "exited"} =>
                pc' = "query")
        /\ (pc' = "query" /\ pc # "query" /\ everQueried => pc = "post_sleep") ]_vars

C12_Witness ==
    /\ pc = "post_sleep"
    /\ argNow
    /\ argTime = Time0900
    /\ nowRead = DateTime(0, 10, 0, 0, 0)
    /\ secs = Secs(23 * 3600)
    /\ Len(symbols) = 2

\* the positions of main between the query and the end of the sleep after
\* the cycle
CyclePcs == {"for", "fetch", "backoff", "retry_wait", "post_sleep"}

\* C13: when the database returns an empty list, the cycle maps no exchange,
\* calls no import, waits for no backoff, and goes from the query straight
\* to the sleep after the cycle.
C13_EmptyList ==
    [][ /\ (Len(rows') = 0 /\ pc' \in CyclePcs =>
                /\ pc' \in {"for", "post_sleep"}
                /\ symbols' = << >>
                /\ idx' = 0
                /\ exch_enum' = None
                /\ warned' = {}
                /\ importedSeq' = << >>
                /\ lastCall' = lastCall
                /\ everImported' = everImported)
        /\ (Len(rows) = 0 /\ pc = "for" /\ pc' \notin {"for", "exited"} =>
                pc' = "post_sleep") ]_vars

C13_Witness ==
    /\ pc = "post_sleep"
    /\ rows = << >>
    /\ cycleQueries = 1
    /\ everImported
    /\ secs = Secs(86400)

\* the dashed form of the symbols the database of the model stores
ExpectedDashed(sym) ==
    CASE sym = "BTCUSDT" -> "BTC-USDT"
      [] sym = "ETHUSDT" -> "ETH-USDT"
      [] sym = "XBTUSD"  -> "XBT-USD"

\* the identifier a database exchange name stands for
ExpectedEnum(name) ==
    CASE name \in {NameSpaced, NameDashed} -> "Binance Perpetual Futures"
      [] name = NameSpot                  -> "Binance Spot"
      [] OTHER                            -> None

\* C16: the database is queried exactly once per cycle and the pairs of the
\* cycle are exactly the rows of that query: nothing survives from an
\* earlier cycle, so a pair is skipped or imported only if the fresh list
\* holds it.
C16_FreshListPerCycle ==
    /\ pc \in CyclePcs =>
        /\ cycleQueries = 1
        /\ Len(symbols) = Len(rows)
        /\ \A i \in 1..Len(rows) :
            /\ symbols[i].exchange = rows[i].exchange
            /\ symbols[i].symbol = ExpectedDashed(rows[i].symbol)
        /\ DOMAIN status = 1..Len(rows)
        /\ warned \subseteq { i \in 1..Len(rows) : ExpectedEnum(rows[i].exchange) = None }
        /\ \A k \in 1..Len(importedSeq) :
            \E i \in 1..Len(rows) :
                /\ importedSeq[k].exchange = rows[i].exchange
                /\ importedSeq[k].symbol = ExpectedDashed(rows[i].symbol)
    /\ pc = "post_sleep" =>
        \A i \in 1..Len(rows) : status[i] \in {"imported", "skipped"}
    /\ pc \in {"parse_args", "startup", "init_wait", "query"} => cycleQueries = 0

C16_Witness ==
    /\ pc = "post_sleep"
    /\ Len(rows) = 1
    /\ rows[1].exchange = NameUnknown
    /\ warned = {1}
    /\ lastCall.symbol = "BTC-USDT"

\* C17: every import call is for the pair being processed: the exchange is
\* the identifier mapped from the exchange name of that pair, the symbol is
\* its dashed symbol, and the start date is always "2018-01-01".
C17_CallArguments ==
    [][ /\ (lastCall' # lastCall => pc = "fetch")
        /\ (pc = "fetch" /\ pc' # "fetch" /\ interruptedAt' = interruptedAt =>
                /\ calls'[idx] = calls[idx] + 1
                /\ lastCall' = [exchange   |-> ExpectedEnum(rows[idx].exchange),
                                symbol     |-> ExpectedDashed(rows[idx].symbol),
                                start_date |-> "2018-01-01"]) ]_vars

C17_Witness ==
    /\ pc = "for"
    /\ idx = 2
    /\ status[2] = "imported"
    /\ calls[2] = 2
    /\ rows[2].exchange = NameSpot
    /\ lastCall = [exchange |-> "Binance Spot", symbol |-> "BTC-USDT",
                   start_date |-> "2018-01-01"]

\* the number of times pair i was reported as imported in this cycle
TimesImported(i) ==
    Cardinality({ k \in 1..Len(importedSeq) : importedSeq[k] = symbols[i] })

\* C19: within a cycle a pair is not imported again after its success: a
\* pair has at most one successful import call, every mapped pair has
\* exactly one when the cycle is complete, and the calls for an imported
\* pair are its failed attempts plus one.
C19_OneSuccessPerPair ==
    /\ \A i \in Pairs :
        /\ TimesImported(i) = (IF status[i] = "imported" THEN 1 ELSE 0)
        /\ status[i] = "imported" => calls[i] = fails429[i] + failsNet[i] + 1
        /\ status[i] = "skipped" => calls[i] = 0
    /\ pc = "post_sleep" => \A i \in Pairs : Mapped(i) => TimesImported(i) = 1

C19_Witness ==
    /\ pc = "post_sleep"
    /\ Len(importedSeq) = 2
    /\ calls[1] = 3 /\ fails429[1] + failsNet[1] = 2
    /\ calls[2] = 1

\* ------------------------------------------------------------------------
\* map_db_exchange_to_enum on its own: pairs of exchange names
\* ------------------------------------------------------------------------
NameLowerSpot ==
    <<"b", "i", "n", "a", "n", "c", "e", "s", "p", "o", "t">>

NameModule ==
    <<"m", "o", "d", "u", "l", "e">>

NamePunct ==
    <<"-", " ", "_", ".">>

NameNearMiss ==
    <<"B", "i", "n", "a", "n", "c", "e", " ", "P", "e", "r", "p", "e", "t",
      "u", "a", "l", " ", "F", "u", "t", "u", "r", "e">>

NameDigits ==
    <<"B", "i", "n", "a", "n", "c", "e", " ", "2", " ", "S", "p", "o", "t">>

\* exchange names as a database can hold them
MapSamples ==
    { NameSpaced, NameDashed, AttrBPF, NameSpot, AttrSpot, NameLowerSpot,
      NameUnknown, NameModule, AttrModule, NamePunct, NameNearMiss, NameDigits,
      << >> }

MapInit == InitWith(FALSE, << >>, "map_call", Midnight)

\* two calls of map_db_exchange_to_enum
MapCall ==
    /\ pc = "map_call"
    /\ \E a \in MapSamples, b \in MapSamples :
        /\ mapIn' = << a, b >>
        /\ mapOut' = << map_db_exchange_to_enum(a), map_db_exchange_to_enum(b) >>
    /\ pc' = "map_done"
    /\ UNCHANGED << cfgVars, cycleVars, endVars, everVars, sleepVars, queryVars,
                    clockVars >>

MapNext == MapCall

MapSpec == MapInit /\ [][MapNext]_vars

\* the normalized form of a name: the letters and digits of the name, in
\* upper case
NormalForm(s) ==
    LET kept == SelectSeq(s, IsAlnum)
    IN  [i \in 1..Len(kept) |-> UpperOf(kept[i])]

\* the known exchange identifiers
KnownIds ==
    { [name |-> AttrBPF,  value |-> "Binance Perpetual Futures"],
      [name |-> AttrSpot, value |-> "Binance Spot"] }

\* C14: the mapping depends only on the normalized form of the name: two
\* names with the same normalized form get the same result, and a name whose
\* normalized form is that of the name of a known identifier gets that
\* identifier.
C14_NormalizedLookup ==
    pc = "map_done" =>
        /\ NormalForm(mapIn[1]) = NormalForm(mapIn[2]) => mapOut[1] = mapOut[2]
        /\ \A k \in {1, 2} : \A id \in KnownIds :
            NormalForm(mapIn[k]) = NormalForm(id.name) => mapOut[k] = id.value

C14_Witness ==
    /\ pc = "map_done"
    /\ mapIn = << NameSpaced, NameDashed >>
    /\ mapOut = << "Binance Perpetual Futures", "Binance Perpetual Futures" >>

\* C15: a name whose normalized form is that of no known identifier, the
\* empty name and names of punctuation included, gets the result None.
C15_UnmappedIsNone ==
    pc = "map_done" =>
        \A k \in {1, 2} :
            (\A id \in KnownIds : NormalForm(mapIn[k]) # NormalForm(id.name)) =>
                mapOut[k] = None

C15_Witness ==
    /\ pc = "map_done"
    /\ mapIn = << << >>, NamePunct >>
    /\ mapOut = << None, None >>

\* ------------------------------------------------------------------------
\* The process when no interrupt arrives, every query and every sleep
\* returns, and an import fails only with ConnectionError, at most MaxFails
\* times per pair and cycle: the process always takes its next step
\* ------------------------------------------------------------------------
LiveInit ==
    \E now \in BOOLEAN, time \in TimeArgs :
        /\ ParseArgsExit(time) = Running
        /\ InitWith(now, time, "parse_args", Midnight)

\* the steps of the for loop over the pairs
ForStep ==
    \/ ForSkip
    \/ ForStart
    \/ ForEnd

\* every other step of main and of fetch_candles
MainStep ==
    \/ ParseArgs
    \/ Startup
    \/ InitWaitDone
    \/ Query
    \/ PostSleepDone
    \/ FetchOk
    \/ FetchConnErr
    \/ BackoffDone
    \/ RetryWaitDone

LiveNext == MainStep \/ ForStep

\* ForStep is enabled exactly when pc = "for": the guards of its three
\* actions cover every state at "for", and each of them changes idx or pc
\* (an invariant of LiveSpec)
ForStepEnabled == (pc = "for") <=> ENABLED << ForStep >>_vars

\* weak fairness of ForStep: WF_vars(ForStep), which is
\* []<>(~ENABLED <<ForStep>>_vars) \/ []<><<ForStep>>_vars, with the
\* enabling condition written as the state predicate of ForStepEnabled
ForFair == []<>(pc # "for") \/ []<><<ForStep>>_vars

\* a sequential process that is not interrupted takes its next step
LiveSpec == LiveInit /\ [][LiveNext]_vars /\ WF_vars(MainStep) /\ ForFair

\* C18: without an interrupt, with queries and sleeps that return and
\* imports that fail only finitely often, every cycle reaches its sleep after
\* the cycle and a new cycle starts again and again.
C18_CyclesForever ==
    /\ (pc = "for") ~> (pc = "post_sleep")
    /\ (pc = "post_sleep") ~> (pc = "query")
    /\ []<>(pc = "query")

C18_Witness ==
    /\ pc = "query"
    /\ everQueried
    /\ \E i \in Pairs :
        /\ status[i] = "imported"
        /\ fails429[i] + failsNet[i] = MaxFails

\* ------------------------------------------------------------------------
\* The process in daily-time mode with a clock: datetime.now() returns clock,
\* a sleep of secs seconds advances the clock by exactly secs, a database
\* query and an import take one of the durations of Elapsed, and every
\* other step takes no time
\* ------------------------------------------------------------------------
\* no time, 45 seconds, and a quarter of a second more than 25 hours
Elapsed == { Secs(0), Secs(45), [s |-> 90000, us |-> 250000] }

\* the query results of this specification: a cycle has at most one pair,
\* its length comes from Elapsed and from the sleeps of the retries
DailyResults == { r \in DbResults : Len(r) <= 1 }

ClockInit ==
    \E time \in ValidTimeArgs, clock0 \in Moments :
        InitWith(FALSE, time, "parse_args", clock0)

Unmoved == UNCHANGED << cycleStart, prevStart >>

TimedStartup == DoStartup(clock) /\ UNCHANGED clockVars

TimedInitWaitDone == DoInitWaitDone /\ clock' = DtAdd(clock, secs) /\ Unmoved

\* a cycle starts: its start is the moment the query is issued
TimedQuery ==
    /\ clock.d <= MaxDay
    /\ \E fetched \in DailyResults, e \in Elapsed :
        /\ DoQuery(fetched)
        /\ clock' = DtAdd(clock, e)
    /\ cycleStart' = clock
    /\ prevStart' = cycleStart

TimedForEnd == DoForEnd(clock) /\ UNCHANGED clockVars

TimedPostSleepDone == DoPostSleepDone /\ clock' = DtAdd(clock, secs) /\ Unmoved

TimedFetchOk ==
    /\ DoFetchOk
    /\ \E e \in Elapsed : clock' = DtAdd(clock, e)
    /\ Unmoved

TimedFetchConnErr ==
    /\ DoFetchConnErr
    /\ \E e \in Elapsed : clock' = DtAdd(clock, e)
    /\ Unmoved

TimedBackoffDone == DoBackoffDone /\ clock' = DtAdd(clock, secs) /\ Unmoved

TimedRetryWaitDone == DoRetryWaitDone /\ clock' = DtAdd(clock, secs) /\ Unmoved

ClockNext ==
    \/ ParseArgs
    \/ TimedStartup
    \/ TimedInitWaitDone
    \/ TimedQuery
    \/ ForSkip
    \/ ForStart
    \/ TimedForEnd
    \/ TimedPostSleepDone
    \/ TimedFetchOk
    \/ TimedFetchConnErr
    \/ TimedBackoffDone
    \/ TimedRetryWaitDone

ClockSpec == ClockInit /\ [][ClockNext]_vars

\* dt falls on the configured time of day, to the microsecond
AtConfiguredTime(dt) ==
    /\ SecondOfDay(dt) = ArgTimeOfDay(argTime)
    /\ dt.us = 0

\* C20: in daily-time mode with exact sleeps every cycle starts at the
\* configured time of day and later than the cycle before it; a cycle that
\* ends at the very moment it started sleeps 86400 seconds; and the start
\* after a cycle is the first moment with that time of day after the cycle
\* finished, whatever number of such moments passed while it ran.
C20_DailyStarts ==
    /\ cycleStart # NoMoment => AtConfiguredTime(cycleStart)
    /\ prevStart # NoMoment => DtLess(prevStart, cycleStart)
    /\ (pc = "post_sleep" /\ nowRead = cycleStart) => secs = Secs(86400)
    /\ (pc = "query" /\ cycleStart # NoMoment) =>
        /\ AtConfiguredTime(clock)
        /\ DtLess(nowRead, clock)
        /\ DtLessEq(clock, AddDays(nowRead, 1))
        /\ DtLess(cycleStart, clock)

C20_Witness ==
    /\ pc = "post_sleep"
    /\ prevStart # NoMoment
    /\ cycleStart.d >= prevStart.d + 2
    /\ nowRead = cycleStart
    /\ secs = Secs(86400)

====
